---------------------------- MODULE Spec2Model ----------------------------
(***************************************************************************)
(* The per-voice DSP core of FluidSynth: fluid_dsp_core.c (wavetable       *)
(* interpolation, IIR filter, pan mixdown, reverb and chorus send) and the *)
(* voice parameters of fluid_rvoice.h.                                     *)
(*                                                                         *)
(* fluid_dsp_core.c is a code block that the voice writer includes for one *)
(* range [dsp_start, dsp_end) of the output buffer.  One pass over it is   *)
(* modelled as the stages Interpolate, Filter, Pan, ReverbSend, ChorusSend *)
(* run in this order; BlockStart is the caller that sets the range and the *)
(* per-block targets before each pass.  The build is the portable one      *)
(* (ENABLE_SSE undefined); WITH_FLOAT is either defined or not.            *)
(*                                                                         *)
(* fluid_real_t values are dyadic rationals <<m, e>> = m * 2^e, m odd or   *)
(* zero.  The inputs have short mantissas, so every IEEE operation the     *)
(* code performs on them is exact in both builds.                          *)
(***************************************************************************)
EXTENDS Integers, Sequences, FiniteSets, TLC

---------------------------------------------------------------------------
(* fluid_real_t arithmetic *)

IAbs(n) == IF n < 0 THEN -n ELSE n

IMin(a, b) == IF a < b THEN a ELSE b

RECURSIVE Norm(_, _)
Norm(m, e) ==
    IF m = 0 THEN <<0, 0>>
    ELSE IF m % 2 = 0 THEN Norm(m \div 2, e + 1)
    ELSE <<m, e>>

RInt(n) == Norm(n, 0)

Zero == RInt(0)

One == RInt(1)

Half == Norm(1, -1)

RECURSIVE FloorLog2(_)
FloorLog2(n) == IF n <= 1 THEN 0 ELSE 1 + FloorLog2(n \div 2)

\* the exponent of the leading bit of a non-zero value: floor(log2 |x|)
LeadExp(x) == FloorLog2(IAbs(x[1])) + x[2]

RNeg(x) == <<-x[1], x[2]>>

RMul(x, y) == Norm(x[1] * y[1], x[2] + y[2])

\* round-to-nearest addition: an operand more than 60 binary places below
\* the other is absorbed (float has 24, double 53 bits of mantissa)
RAdd(x, y) ==
    IF x[1] = 0 THEN y
    ELSE IF y[1] = 0 THEN x
    ELSE IF LeadExp(x) - LeadExp(y) > 60 THEN x
    ELSE IF LeadExp(y) - LeadExp(x) > 60 THEN y
    ELSE LET e == IMin(x[2], y[2])
         IN  Norm(x[1] * 2^(x[2] - e) + y[1] * 2^(y[2] - e), e)

RSub(x, y) == RAdd(x, RNeg(y))

RSign(x) == IF x[1] > 0 THEN 1 ELSE IF x[1] < 0 THEN -1 ELSE 0

\* x < y, decided by sign and leading bit before any subtraction
RLt(x, y) ==
    IF RSign(x) # RSign(y) THEN RSign(x) < RSign(y)
    ELSE IF x[1] = 0 THEN FALSE
    ELSE IF LeadExp(x) # LeadExp(y)
         THEN (IF x[1] > 0 THEN LeadExp(x) < LeadExp(y)
                           ELSE LeadExp(x) > LeadExp(y))
    ELSE RSub(x, y)[1] < 0

\* the C conversion (int)x: truncation toward zero
ToInt(x) ==
    IF x[1] = 0 \/ LeadExp(x) < 0 THEN 0
    ELSE IF x[2] >= 0 THEN x[1] * 2^x[2]
    ELSE IF x[1] > 0 THEN x[1] \div 2^(-x[2])
    ELSE -((-x[1]) \div 2^(-x[2]))

\* the C conversion (float)x of a short-mantissa value: below the smallest
\* denormal (2^-149) it underflows to zero
ToFloat(x) == IF x[1] # 0 /\ LeadExp(x) < -149 THEN Zero ELSE x

---------------------------------------------------------------------------
(* fluid_phase_t: a fixed-point position, here in units of 1/FractOne *)

FractBits == 2

FractOne == 2^FractBits

InterpBits == 1

fluid_phase_index(p) == p \div FractOne

fluid_phase_fract(p) == p % FractOne

fluid_phase_fract_to_tablerow(p) ==
    fluid_phase_fract(p) \div 2^(FractBits - InterpBits)

fluid_phase_incr(a, b) == a + b

\* fluid_phase_index_plusplus(a): the value is a.index, the effect a.index++
fluid_phase_index_plusplus_value(p) == fluid_phase_index(p)

fluid_phase_index_plusplus_effect(p) == p + FractOne

---------------------------------------------------------------------------
(* the sample memory and the interpolation tables *)

\* dsp_data: the table [10, 20, 30, ...] of the end-to-end scenario
dsp_data(i) == RInt(10 * (i + 1))

\* the position x in [0, 1) of a table row
RowX(row) == Norm(row, -InterpBits)

interp_coeff_linear(row) ==
    LET x == RowX(row)
    IN  [a0 |-> RSub(One, x), a1 |-> x]

\* the cubic (4-point) polyphase table
interp_coeff(row) ==
    LET x  == RowX(row)
        xx == RMul(x, x)
    IN  [a0 |-> RMul(x, RAdd(RNeg(Half),
                     RMul(x, RSub(One, RMul(Half, x))))),
         a1 |-> RAdd(One, RMul(xx, RSub(RMul(Norm(3, -1), x), Norm(5, -1)))),
         a2 |-> RMul(x, RAdd(Half,
                     RMul(x, RSub(RInt(2), RMul(Norm(3, -1), x))))),
         a3 |-> RMul(Half, RMul(xx, RSub(x, One)))]

\* the 7-point windowed-sinc table: the centre tap alone at x = 0, and a
\* symmetric row of unit sum half-way between two samples
sinc_table7(i, row) ==
    IF row = 0
    THEN (IF i = 3 THEN One ELSE Zero)
    ELSE CASE i \in {0, 5} -> Norm(1, -5)
           [] i \in {1, 4} -> Norm(-1, -3)
           [] i \in {2, 3} -> Norm(19, -5)
           [] OTHER -> Zero

FLUID_INTERP_NONE == "FLUID_INTERP_NONE"

FLUID_INTERP_LINEAR == "FLUID_INTERP_LINEAR"

FLUID_INTERP_4THORDER == "FLUID_INTERP_4THORDER"

FLUID_INTERP_7THORDER == "FLUID_INTERP_7THORDER"

InterpMethods ==
    {FLUID_INTERP_NONE, FLUID_INTERP_LINEAR,
     FLUID_INTERP_4THORDER, FLUID_INTERP_7THORDER}

---------------------------------------------------------------------------
(* sample and loop points of the voice (offsets in sample memory) *)

SampleStart == 1

LoopStart == 2

LoopEnd == 4

SampleEnd == 5

FLUID_UNLOOPED == 0

FLUID_LOOP_UNTIL_RELEASE == 3

LoopModes == {FLUID_UNLOOPED, FLUID_LOOP_UNTIL_RELEASE}

---------------------------------------------------------------------------
(* bounds of the model *)

\* FLUID_BUFSIZE: samples per output buffer
BufSize == 3

\* passes over the DSP core per behaviour
MaxBlocks == 2

BufIdx == 0 .. (BufSize - 1)

NULL == <<>>

VARIABLES
    scenario,        \* which stage's inputs are enumerated widely
    WITH_FLOAT,      \* build: fluid_real_t is float (TRUE) or double
    pc,              \* the next stage
    blocks,          \* passes started
    voice,           \* the voice structure
    blk,             \* dsp_start, dsp_end and the targets of this pass
    dsp_buf,         \* the scratch buffer
    dsp_left_buf, dsp_right_buf, dsp_reverb_buf, dsp_chorus_buf,
    old,             \* the state before the last stage ran
    voice0,          \* the voice as the note started
    reads,           \* sample-memory indices read by the last Interpolate
    lookups,         \* phase indices looked up by the last Interpolate
    wrapped,         \* the phase the tracker last wrapped from, or -1
    processed,       \* samples the filter stage has processed so far
    flushed,         \* dsp_hist1 as the last Filter began its loop
    dsp_msb,         \* sample memory: the 16 bit parts
    dsp_lsb,         \* sample memory: the 8 bit parts, or NULL
    sample_idx,      \* the index fluid_rvoice_get_sample is called with
    got_sample,      \* the value fluid_rvoice_get_sample returned, if called
    mix_voices,      \* the voices of a block: mixer settings and buffer
    mix_done,        \* the voices mixed down so far, in that order
    mix_prior,       \* the destination buffers before the first mixdown
    race_serialized, \* worker threads take turns at a destination
    threads,         \* per worker thread: position in its send loop
    lock             \* the thread whose turn it is, or 0

\* the variables of the DSP core and of its caller
core_vars ==
    <<scenario, WITH_FLOAT, pc, blocks, voice, blk, dsp_buf, dsp_left_buf,
      dsp_right_buf, dsp_reverb_buf, dsp_chorus_buf, old, voice0, reads,
      lookups, wrapped, processed, flushed>>

\* the variables of fluid_rvoice_get_sample
sample_vars == <<dsp_msb, dsp_lsb, sample_idx, got_sample>>

\* the variables the DSP core never touches
\* the variables of a mixdown of several voices
mix_vars == <<mix_voices, mix_done, mix_prior>>

\* the variables of voices mixed down by parallel worker threads
race_vars == <<race_serialized, threads, lock>>

aux_vars == <<sample_vars, mix_vars, race_vars>>

vars == <<core_vars, aux_vars>>

Snapshot ==
    [voice |-> voice, dsp_buf |-> dsp_buf, left |-> dsp_left_buf,
     right |-> dsp_right_buf, reverb |-> dsp_reverb_buf,
     chorus |-> dsp_chorus_buf]

---------------------------------------------------------------------------
(* fluid_rvoice_get_sample: fluid_rvoice.h lines 210-230 *)

\* entries of the sample memory in the model
SampleLen == 2

SampleIdxs == 0 .. (SampleLen - 1)

\* short int values of dsp_msb
Shorts == {-32768, -129, -1, 0, 1, 32767}

\* char values of dsp_lsb, char being signed or unsigned
Chars == {-128, -1, 0, 127, 255}

\* a uint32_t is <<its high 16 bits, its low 16 bits>>

\* (uint32_t)dsp_msb[idx]: the short converted modulo 2^32
U32FromShort(m) == IF m >= 0 THEN <<0, m>> ELSE <<65535, m + 65536>>

\* msb << 8 in 32 bits
U32Shl8(u) ==
    <<(u[1] * 256 + u[2] \div 256) % 65536, (u[2] * 256) % 65536>>

\* a | b on the low n bits
RECURSIVE BitOr(_, _, _)
BitOr(a, b, n) ==
    IF n = 0 THEN 0
    ELSE (IF a % 2 = 1 \/ b % 2 = 1 THEN 1 ELSE 0)
         + 2 * BitOr(a \div 2, b \div 2, n - 1)

\* u | lsb, lsb promoted from uint8_t
U32OrByte(u, lsb) == <<u[1], BitOr(u[2], lsb, 16)>>

\* the char taken as it is, sign included
U8FromChar_sign_kept(c) == c

\* (uint8_t)dsp_lsb[idx]
U8FromChar(c) == c % 256

\* (int32_t)u
I32FromU32(u) ==
    IF u[1] >= 32768 THEN (u[1] - 65536) * 65536 + u[2]
    ELSE u[1] * 65536 + u[2]

fluid_rvoice_get_sample(msbs, lsbs, idx) ==
    LET msb == U32FromShort(msbs[idx])
        lsb == IF lsbs # NULL THEN U8FromChar(lsbs[idx]) ELSE 0
    IN  I32FromU32(U32OrByte(U32Shl8(msb), lsb))

SampleIdle ==
    /\ dsp_msb = [i \in SampleIdxs |-> 0]
    /\ dsp_lsb = NULL
    /\ sample_idx = 0
    /\ got_sample = <<>>

\* a call of fluid_rvoice_get_sample
GetSample ==
    /\ \E idx \in SampleIdxs :
          /\ sample_idx' = idx
          /\ got_sample' = <<fluid_rvoice_get_sample(dsp_msb, dsp_lsb, idx)>>
    /\ UNCHANGED <<dsp_msb, dsp_lsb, core_vars, mix_vars, race_vars>>

---------------------------------------------------------------------------
(* Interpolation: fluid_dsp_core.c lines 95-354 *)

FastPath(phase, phase_incr) ==
    /\ fluid_phase_fract(phase) = 0
    /\ fluid_phase_fract(phase_incr) = 0
    /\ fluid_phase_index(phase_incr) = 1

\* FastStep with the index incremented before it is used
FastStep_preincrement(s, i, amp_incr) ==
    LET idx == fluid_phase_index(fluid_phase_index_plusplus_effect(s.phase))
    IN  [phase   |-> fluid_phase_index_plusplus_effect(s.phase),
         amp     |-> RAdd(s.amp, amp_incr),
         buf     |-> [s.buf EXCEPT ![i] = RMul(s.amp, dsp_data(idx))],
         reads   |-> s.reads \cup {idx},
         lookups |-> Append(s.lookups, idx)]

\* FastStep reading the index without advancing it
FastStep_index_not_advanced(s, i, amp_incr) ==
    LET idx == fluid_phase_index(s.phase)
    IN  [phase   |-> s.phase,
         amp     |-> RAdd(s.amp, amp_incr),
         buf     |-> [s.buf EXCEPT ![i] = RMul(s.amp, dsp_data(idx))],
         reads   |-> s.reads \cup {idx},
         lookups |-> Append(s.lookups, idx)]

\* one pass of the fast-path loop body; s = [phase, amp, buf, reads, lookups]
FastStep(s, i, amp_incr) ==
    LET idx == fluid_phase_index_plusplus_value(s.phase)
    IN  [phase   |-> fluid_phase_index_plusplus_effect(s.phase),
         amp     |-> RAdd(s.amp, amp_incr),
         buf     |-> [s.buf EXCEPT ![i] = RMul(s.amp, dsp_data(idx))],
         reads   |-> s.reads \cup {idx},
         lookups |-> Append(s.lookups, idx)]

\* the bracketed sum of one interpolated sample
InterpSum(method, phase) ==
    LET row == fluid_phase_fract_to_tablerow(phase)
        idx == fluid_phase_index(phase)
    IN  CASE method = FLUID_INTERP_NONE -> dsp_data(idx)
          [] method = FLUID_INTERP_LINEAR ->
                RAdd(RMul(interp_coeff_linear(row).a0, dsp_data(idx)),
                     RMul(interp_coeff_linear(row).a1, dsp_data(idx + 1)))
          [] method = FLUID_INTERP_7THORDER ->
                RAdd(RMul(sinc_table7(0, row), dsp_data(idx)),
                RAdd(RMul(sinc_table7(1, row), dsp_data(idx + 1)),
                RAdd(RMul(sinc_table7(2, row), dsp_data(idx + 2)),
                RAdd(RMul(sinc_table7(3, row), dsp_data(idx + 3)),
                RAdd(RMul(sinc_table7(4, row), dsp_data(idx + 4)),
                RAdd(RMul(sinc_table7(5, row), dsp_data(idx + 5)),
                     RMul(sinc_table7(6, row), dsp_data(idx + 6))))))))
          [] OTHER ->
                RAdd(RMul(interp_coeff(row).a0, dsp_data(idx)),
                RAdd(RMul(interp_coeff(row).a1, dsp_data(idx + 1)),
                RAdd(RMul(interp_coeff(row).a2, dsp_data(idx + 2)),
                     RMul(interp_coeff(row).a3, dsp_data(idx + 3)))))

\* InterpReads with an eighth tap in the 7th-order sum
InterpReads_8taps(method, idx) ==
    CASE method = FLUID_INTERP_NONE -> {idx}
      [] method = FLUID_INTERP_LINEAR -> idx .. (idx + 1)
      [] method = FLUID_INTERP_7THORDER -> idx .. (idx + 7)
      [] OTHER -> idx .. (idx + 3)

\* the subscripts of dsp_data in that sum
InterpReads(method, idx) ==
    CASE method = FLUID_INTERP_NONE -> {idx}
      [] method = FLUID_INTERP_LINEAR -> idx .. (idx + 1)
      [] method = FLUID_INTERP_7THORDER -> idx .. (idx + 6)
      [] OTHER -> idx .. (idx + 3)

\* InterpStep with the phase advanced before the sample is taken
InterpStep_incr_first(s, i, method, phase_incr, amp_incr) ==
    LET p   == fluid_phase_incr(s.phase, phase_incr)
        idx == fluid_phase_index(p)
    IN  [phase   |-> p,
         amp     |-> RAdd(s.amp, amp_incr),
         buf     |-> [s.buf EXCEPT ![i] = RMul(s.amp, InterpSum(method, p))],
         reads   |-> s.reads \cup InterpReads(method, idx),
         lookups |-> Append(s.lookups, idx)]

\* InterpStep without dsp_amp += dsp_amp_incr
InterpStep_amp_not_advanced(s, i, method, phase_incr, amp_incr) ==
    LET idx == fluid_phase_index(s.phase)
    IN  [phase   |-> fluid_phase_incr(s.phase, phase_incr),
         amp     |-> s.amp,
         buf     |-> [s.buf EXCEPT ![i] = RMul(s.amp, InterpSum(method, s.phase))],
         reads   |-> s.reads \cup InterpReads(method, idx),
         lookups |-> Append(s.lookups, idx)]

InterpStep(s, i, method, phase_incr, amp_incr) ==
    LET idx == fluid_phase_index(s.phase)
    IN  [phase   |-> fluid_phase_incr(s.phase, phase_incr),
         amp     |-> RAdd(s.amp, amp_incr),
         buf     |-> [s.buf EXCEPT ![i] = RMul(s.amp, InterpSum(method, s.phase))],
         reads   |-> s.reads \cup InterpReads(method, idx),
         lookups |-> Append(s.lookups, idx)]

RECURSIVE FastLoop(_, _, _, _)
FastLoop(s, i, dsp_end, amp_incr) ==
    IF i < dsp_end
    THEN FastLoop(FastStep(s, i, amp_incr), i + 1, dsp_end, amp_incr)
    ELSE s

RECURSIVE InterpLoop(_, _, _, _, _, _)
InterpLoop(s, i, dsp_end, method, phase_incr, amp_incr) ==
    IF i < dsp_end
    THEN InterpLoop(InterpStep(s, i, method, phase_incr, amp_incr),
                    i + 1, dsp_end, method, phase_incr, amp_incr)
    ELSE s

InterpolateBlock(v, b, buf) ==
    LET s0 == [phase |-> v.phase, amp |-> v.amp, buf |-> buf,
               reads |-> {}, lookups |-> <<>>]
    IN  IF FastPath(v.phase, b.phase_incr)
        THEN FastLoop(s0, b.dsp_start, b.dsp_end, b.amp_incr)
        ELSE InterpLoop(s0, b.dsp_start, b.dsp_end, v.interp_method,
                        b.phase_incr, b.amp_incr)

Interpolate ==
    /\ pc = "interp"
    /\ LET s == InterpolateBlock(voice, blk, dsp_buf)
       IN  /\ voice' = [voice EXCEPT !.phase = s.phase, !.amp = s.amp]
           /\ dsp_buf' = s.buf
           /\ reads' = s.reads
           /\ lookups' = s.lookups
    /\ old' = Snapshot
    /\ UNCHANGED aux_vars
    /\ pc' = "filter"
    /\ UNCHANGED <<scenario, WITH_FLOAT, blocks, blk, dsp_left_buf,
                   dsp_right_buf, dsp_reverb_buf, dsp_chorus_buf, voice0,
                   wrapped, processed, flushed>>

---------------------------------------------------------------------------
(* Filter: fluid_dsp_core.c lines 357-411 *)

\* the operand 1e-20 of the double build's comparison lies between 2^-67
\* and 2^-66; its left operand is an int, so either bound decides alike
ZapThresholdDouble == Norm(1, -67)

\* (bits & 0x7f800000): the biased exponent field of a float, in place
FloatExponentBits(x) ==
    IF x[1] = 0 \/ LeadExp(x) + 127 < 1 THEN 0
    ELSE (LeadExp(x) + 127) * 2^23

\* zap_almost_zero returning its argument whatever its size
zap_almost_zero_no_flush(sample, with_float) == sample

\* WITH_FLOAT:  ((bits & 0x7f800000) < 0x08000000) ? 0.0f : sample
\* otherwise:   abs(sample) < 1e-20 ? 0 : sample, abs being C's int abs(int)
zap_almost_zero(sample, with_float) ==
    IF with_float
    THEN (IF FloatExponentBits(sample) < 134217728 THEN Zero ELSE sample)
    ELSE (IF RLt(RInt(IAbs(ToInt(sample))), ZapThresholdDouble)
          THEN Zero ELSE sample)

\* FilterSample without the hist2 term of the output sum
FilterSample_no_hist2(f, i) ==
    LET dsp_centernode ==
            RSub(RSub(f.buf[i], RMul(f.a1, f.hist1)), RMul(f.a2, f.hist2))
    IN  [f EXCEPT
            !.buf[i] = RAdd(RMul(f.b02, dsp_centernode), RMul(f.b1, f.hist1)),
            !.hist2 = f.hist1,
            !.hist1 = dsp_centernode]

\* the Direct-II form step shared by both loops;
\* f = [buf, hist1, hist2, a1, a2, b02, b1, count]
FilterSample(f, i) ==
    LET dsp_centernode ==
            RSub(RSub(f.buf[i], RMul(f.a1, f.hist1)), RMul(f.a2, f.hist2))
    IN  [f EXCEPT
            !.buf[i] = RAdd(RMul(f.b02, RAdd(dsp_centernode, f.hist2)),
                            RMul(f.b1, f.hist1)),
            !.hist2 = f.hist1,
            !.hist1 = dsp_centernode]

\* CoeffIncr with the count decremented before the test
CoeffIncr_predecrement(f, v) ==
    IF f.count - 1 > 0
    THEN [f EXCEPT !.a1 = RAdd(f.a1, v.a1_incr),
                   !.a2 = RAdd(f.a2, v.a2_incr),
                   !.b02 = RAdd(f.b02, v.b02_incr),
                   !.b1 = RAdd(f.b1, v.b1_incr),
                   !.count = f.count - 1]
    ELSE [f EXCEPT !.count = f.count - 1]

\* CoeffIncr with the count decremented only while it is positive
CoeffIncr_count_stops_at_zero(f, v) ==
    IF f.count > 0
    THEN [f EXCEPT !.a1 = RAdd(f.a1, v.a1_incr),
                   !.a2 = RAdd(f.a2, v.a2_incr),
                   !.b02 = RAdd(f.b02, v.b02_incr),
                   !.b1 = RAdd(f.b1, v.b1_incr),
                   !.count = f.count - 1]
    ELSE f

\* if (dsp_filter_coeff_incr_count-- > 0) { the four += }
CoeffIncr(f, v) ==
    IF f.count > 0
    THEN [f EXCEPT !.a1 = RAdd(f.a1, v.a1_incr),
                   !.a2 = RAdd(f.a2, v.a2_incr),
                   !.b02 = RAdd(f.b02, v.b02_incr),
                   !.b1 = RAdd(f.b1, v.b1_incr),
                   !.count = f.count - 1]
    ELSE [f EXCEPT !.count = f.count - 1]

RECURSIVE FilterLoopChanging(_, _, _, _)
FilterLoopChanging(f, i, dsp_end, v) ==
    IF i < dsp_end
    THEN FilterLoopChanging(CoeffIncr(FilterSample(f, i), v), i + 1, dsp_end, v)
    ELSE f

RECURSIVE FilterLoopConstant(_, _, _)
FilterLoopConstant(f, i, dsp_end) ==
    IF i < dsp_end
    THEN FilterLoopConstant(FilterSample(f, i), i + 1, dsp_end)
    ELSE f

\* the filter stage run whatever the flag
dsp_use_filter_flag_always(b) == TRUE

\* if (dsp_use_filter_flag)
dsp_use_filter_flag(b) == b.filter_flag

\* the filter stage: the voice and the scratch buffer it leaves
FilterBlock(v, b, buf, with_float) ==
    IF dsp_use_filter_flag(b)
    THEN LET f0 == [buf |-> buf,
                    hist1 |-> zap_almost_zero(v.hist1, with_float),
                    hist2 |-> v.hist2, a1 |-> v.a1, a2 |-> v.a2,
                    b02 |-> v.b02, b1 |-> v.b1,
                    count |-> v.filter_coeff_incr_count]
         IN  IF v.filter_coeff_incr_count > 0
             THEN LET f == FilterLoopChanging(f0, b.dsp_start, b.dsp_end, v)
                  IN  [voice |-> [v EXCEPT !.hist1 = f.hist1, !.hist2 = f.hist2,
                                           !.a1 = f.a1, !.a2 = f.a2,
                                           !.b02 = f.b02, !.b1 = f.b1,
                                           !.filter_coeff_incr_count = f.count],
                       buf |-> f.buf, flushed |-> f0.hist1]
             ELSE LET f == FilterLoopConstant(f0, b.dsp_start, b.dsp_end)
                  IN  [voice |-> [v EXCEPT !.hist1 = f.hist1, !.hist2 = f.hist2],
                       buf |-> f.buf, flushed |-> f0.hist1]
    ELSE [voice |-> v, buf |-> buf, flushed |-> v.hist1]

Filter ==
    /\ pc = "filter"
    /\ LET r == FilterBlock(voice, blk, dsp_buf, WITH_FLOAT)
       IN  /\ voice' = r.voice
           /\ dsp_buf' = r.buf
           /\ flushed' = r.flushed
    /\ processed' = IF blk.filter_flag
                    THEN processed + (blk.dsp_end - blk.dsp_start)
                    ELSE processed
    /\ old' = Snapshot
    /\ UNCHANGED aux_vars
    /\ pc' = "pan"
    /\ UNCHANGED <<scenario, WITH_FLOAT, blocks, blk, dsp_left_buf,
                   dsp_right_buf, dsp_reverb_buf, dsp_chorus_buf, voice0,
                   reads, lookups, wrapped>>

---------------------------------------------------------------------------
(* Pan and the effect sends: fluid_dsp_core.c lines 505-550 *)

\* MixInto with = in place of +=
MixInto_overwrite(dest, gain, buf, b) ==
    [i \in BufIdx |->
        IF b.dsp_start <= i /\ i < b.dsp_end
        THEN RMul(gain, buf[i])
        ELSE dest[i]]

\* dest[i] += gain * buf[i] for dsp_start <= i < dsp_end
MixInto(dest, gain, buf, b) ==
    [i \in BufIdx |->
        IF b.dsp_start <= i /\ i < b.dsp_end
        THEN RAdd(dest[i], RMul(gain, buf[i]))
        ELSE dest[i]]

Centered(pan) == RLt(pan, Half) /\ RLt(RNeg(Half), pan)

\* float v = voice->amp_left * dsp_buf[dsp_i]
CenteredProduct(gain, x, with_float) ==
    IF with_float THEN RMul(gain, x) ELSE ToFloat(RMul(gain, x))

\* MixCentered storing the product instead of adding it
MixCentered_overwrite(dest, gain, buf, b, with_float) ==
    [i \in BufIdx |->
        IF b.dsp_start <= i /\ i < b.dsp_end
        THEN CenteredProduct(gain, buf[i], with_float)
        ELSE dest[i]]

MixCentered(dest, gain, buf, b, with_float) ==
    [i \in BufIdx |->
        IF b.dsp_start <= i /\ i < b.dsp_end
        THEN RAdd(dest[i], CenteredProduct(gain, buf[i], with_float))
        ELSE dest[i]]

PanBlock(v, b, buf, left, right, with_float) ==
    IF Centered(v.pan)
    THEN [left  |-> MixCentered(left, v.amp_left, buf, b, with_float),
          right |-> MixCentered(right, v.amp_left, buf, b, with_float)]
    ELSE [left  |-> IF v.amp_left # Zero
                    THEN MixInto(left, v.amp_left, buf, b) ELSE left,
          right |-> IF v.amp_right # Zero
                    THEN MixInto(right, v.amp_right, buf, b) ELSE right]

Pan ==
    /\ pc = "pan"
    /\ LET r == PanBlock(voice, blk, dsp_buf, dsp_left_buf, dsp_right_buf,
                         WITH_FLOAT)
       IN  /\ dsp_left_buf' = r.left
           /\ dsp_right_buf' = r.right
    /\ old' = Snapshot
    /\ UNCHANGED aux_vars
    /\ pc' = "reverb"
    /\ UNCHANGED <<scenario, WITH_FLOAT, blocks, voice, blk, dsp_buf,
                   dsp_reverb_buf, dsp_chorus_buf, voice0, reads, lookups,
                   wrapped, processed, flushed>>

\* if (dest && gain != 0) the add loop; the buffer may be NULL
SendBlock(dest, gain, buf, b) ==
    IF dest # NULL /\ gain # Zero THEN MixInto(dest, gain, buf, b) ELSE dest

ReverbBlock(v, b, buf, reverb) == SendBlock(reverb, v.amp_reverb, buf, b)

\* the chorus send scaled by the reverb gain
ChorusBlock_reverb_gain(v, b, buf, chorus) ==
    SendBlock(chorus, v.amp_reverb, buf, b)

ChorusBlock(v, b, buf, chorus) == SendBlock(chorus, v.amp_chorus, buf, b)

ReverbSend ==
    /\ pc = "reverb"
    /\ dsp_reverb_buf' = ReverbBlock(voice, blk, dsp_buf, dsp_reverb_buf)
    /\ old' = Snapshot
    /\ UNCHANGED aux_vars
    /\ pc' = "chorus"
    /\ UNCHANGED <<scenario, WITH_FLOAT, blocks, voice, blk, dsp_buf,
                   dsp_left_buf, dsp_right_buf, dsp_chorus_buf, voice0,
                   reads, lookups, wrapped, processed, flushed>>

ChorusSend ==
    /\ pc = "chorus"
    /\ dsp_chorus_buf' = ChorusBlock(voice, blk, dsp_buf, dsp_chorus_buf)
    /\ old' = Snapshot
    /\ UNCHANGED aux_vars
    /\ pc' = "start"
    /\ UNCHANGED <<scenario, WITH_FLOAT, blocks, voice, blk, dsp_buf,
                   dsp_left_buf, dsp_right_buf, dsp_reverb_buf, voice0,
                   reads, lookups, wrapped, processed, flushed>>

---------------------------------------------------------------------------
(* Several voices mixed down into the same destination buffers, one after
   another: the pan stage and the sends of fluid_dsp_core.c lines 505-550 run
   once per voice *)

\* voices per block
NumVoices == 3

VoiceIds == 1 .. NumVoices

Dests ==
    [left |-> dsp_left_buf, right |-> dsp_right_buf,
     reverb |-> dsp_reverb_buf, chorus |-> dsp_chorus_buf]

MixIdle ==
    /\ mix_voices = <<>>
    /\ mix_done = <<>>
    /\ mix_prior = Dests

\* the pan stage and both sends of voice id
MixVoice(id) ==
    /\ id \in DOMAIN mix_voices
    /\ \A k \in DOMAIN mix_done : mix_done[k] # id
    /\ LET v == mix_voices[id]
           r == PanBlock(v, blk, v.buf, dsp_left_buf, dsp_right_buf,
                         WITH_FLOAT)
       IN  /\ dsp_left_buf' = r.left
           /\ dsp_right_buf' = r.right
           /\ dsp_reverb_buf' = ReverbBlock(v, blk, v.buf, dsp_reverb_buf)
           /\ dsp_chorus_buf' = ChorusBlock(v, blk, v.buf, dsp_chorus_buf)
    /\ mix_done' = Append(mix_done, id)
    /\ old' = Snapshot
    /\ UNCHANGED <<scenario, WITH_FLOAT, pc, blocks, voice, blk, dsp_buf,
                   voice0, reads, lookups, wrapped, processed, flushed>>
    /\ UNCHANGED <<sample_vars, mix_voices, mix_prior, race_vars>>

---------------------------------------------------------------------------
(* Voices mixed down by worker threads in parallel: the reverb send loop of
   fluid_dsp_core.c lines 539-543, dsp_reverb_buf[dsp_i] += ... being a load
   of the destination sample followed by a store *)

\* worker threads
NumThreads == 2

ThreadIds == 1 .. NumThreads

RaceIdle ==
    /\ race_serialized = FALSE
    /\ threads = <<>>
    /\ lock = 0

\* the variables a worker thread's send leaves alone
send_frame ==
    <<scenario, WITH_FLOAT, pc, blocks, voice, blk, dsp_buf, dsp_left_buf,
      dsp_right_buf, dsp_chorus_buf, old, voice0, reads, lookups, wrapped,
      processed, flushed, sample_vars, mix_voices, mix_prior,
      race_serialized>>

\* the value stored by dest[dsp_i] = gain * buf[dsp_i]
SendStore_overwrite(loaded, gain, x) == RMul(gain, x)

\* the value stored by dest[dsp_i] += gain * buf[dsp_i], the destination
\* sample having been loaded before
SendStore(loaded, gain, x) == RAdd(loaded, RMul(gain, x))

\* thread t reaches its reverb send: if (dsp_reverb_buf && amp_reverb != 0);
\* where sends are serialized it first waits for its turn
ThreadBegin(t) ==
    /\ t \in DOMAIN threads
    /\ threads[t].pc = "begin"
    /\ race_serialized => lock = 0
    /\ lock' = IF race_serialized THEN t ELSE lock
    /\ mix_done' = Append(mix_done, t)
    /\ threads' = [threads EXCEPT
                      ![t] = IF dsp_reverb_buf # NULL
                                /\ mix_voices[t].amp_reverb # Zero
                             THEN [pc |-> "load", i |-> blk.dsp_start,
                                   loaded |-> Zero]
                             ELSE [pc |-> "end", i |-> blk.dsp_end,
                                   loaded |-> Zero]]
    /\ UNCHANGED <<send_frame, dsp_reverb_buf>>

\* dsp_i < dsp_end, and the load of dsp_reverb_buf[dsp_i]
ThreadLoad(t) ==
    /\ t \in DOMAIN threads
    /\ threads[t].pc = "load"
    /\ threads' = [threads EXCEPT
                      ![t] = IF threads[t].i < blk.dsp_end
                             THEN [pc |-> "store", i |-> threads[t].i,
                                   loaded |-> dsp_reverb_buf[threads[t].i]]
                             ELSE [pc |-> "end", i |-> threads[t].i,
                                   loaded |-> Zero]]
    /\ UNCHANGED <<send_frame, dsp_reverb_buf, mix_done, lock>>

\* the store of the sum, and dsp_i++
ThreadStore(t) ==
    /\ t \in DOMAIN threads
    /\ threads[t].pc = "store"
    /\ dsp_reverb_buf' =
          [dsp_reverb_buf EXCEPT
              ![threads[t].i] =
                  SendStore(threads[t].loaded, mix_voices[t].amp_reverb,
                            mix_voices[t].buf[threads[t].i])]
    /\ threads' = [threads EXCEPT
                      ![t] = [pc |-> "load", i |-> threads[t].i + 1,
                              loaded |-> Zero]]
    /\ UNCHANGED <<send_frame, mix_done, lock>>

\* the send is over; where sends are serialized the next thread may go
ThreadEnd(t) ==
    /\ t \in DOMAIN threads
    /\ threads[t].pc = "end"
    /\ threads' = [threads EXCEPT ![t].pc = "done"]
    /\ lock' = IF lock = t THEN 0 ELSE lock
    /\ UNCHANGED <<send_frame, dsp_reverb_buf, mix_done>>

---------------------------------------------------------------------------
(* The caller: the phase tracker and the control layer *)

is_looping(v) == v.samplemode = FLUID_LOOP_UNTIL_RELEASE

\* the last index a lookup may use
EndIndex(v) == IF is_looping(v) THEN LoopEnd - 1 ELSE SampleEnd

\* the loop rule, index >= loopend: index <- loopstart + (index - loopend),
\* applied until the index is inside the loop again
RECURSIVE TrackerWrap(_)
TrackerWrap(p) ==
    IF fluid_phase_index(p) >= LoopEnd
    THEN TrackerWrap(p - (LoopEnd - LoopStart) * FractOne)
    ELSE p

\* how many of `request` samples can be rendered from phase p before the
\* lookup index passes end_index
RECURSIVE TrackerCount(_, _, _, _, _)
TrackerCount(p, phase_incr, n, request, end_index) ==
    IF n >= request \/ fluid_phase_index(p + n * phase_incr) > end_index
    THEN n
    ELSE TrackerCount(p, phase_incr, n + 1, request, end_index)

Tiny == Norm(1, -120)

\* per-block targets the control layer may set
PhaseIncrs ==
    CASE scenario = "interp" -> {2, 4, 10}
      [] scenario = "filter" -> {2}
      [] OTHER -> {0, 4}

AmpIncrs == IF scenario = "interp" THEN {Zero, Half} ELSE {Zero}

FilterFlags == IF scenario = "filter" THEN BOOLEAN ELSE {FALSE}

\* filter settings at note start: <<a1, a2, b02, b1, count>>
FilterSettings ==
    {<<Zero, Zero, Half, Zero, 0>>,
     <<Zero, Zero, One, Zero, 0>>,
     <<RInt(-1), Zero, Half, One, 0>>,
     <<RInt(-1), Zero, Half, One, 2>>,
     <<RInt(-1), Zero, Half, One, 4>>,
     <<Zero, Zero, Half, Zero, 4>>}

\* mixer settings at note start: <<pan, amp_left, amp_right>>
PanSettings ==
    {<<pan, g[1], g[2]>> :
        pan \in {Norm(1, -2), Half, RInt(-1)},
        g \in {<<Half, Half>>, <<RInt(2), One>>, <<Zero, RInt(2)>>,
               <<One, Zero>>}}

BaseVoice ==
    [phase |-> SampleStart * FractOne, amp |-> One,
     interp_method |-> FLUID_INTERP_LINEAR, samplemode |-> FLUID_UNLOOPED,
     hist1 |-> Zero, hist2 |-> Zero,
     a1 |-> Zero, a2 |-> Zero, b02 |-> Half, b1 |-> Zero,
     a1_incr |-> Half, a2_incr |-> Norm(-1, -2), b02_incr |-> Norm(1, -2),
     b1_incr |-> RInt(-1), filter_coeff_incr_count |-> 0,
     pan |-> Zero, amp_left |-> One, amp_right |-> One,
     amp_reverb |-> Zero, amp_chorus |-> Zero]

InterpVoices ==
    {[BaseVoice EXCEPT !.phase = idx * FractOne + fr, !.interp_method = m,
                       !.samplemode = mode] :
        idx \in {SampleStart, LoopEnd - 1, SampleEnd}, fr \in {0, 2},
        m \in InterpMethods, mode \in LoopModes}

FilterVoices ==
    {[BaseVoice EXCEPT !.phase = idx * FractOne,
                       !.samplemode = FLUID_LOOP_UNTIL_RELEASE,
                       !.amp = amp, !.hist1 = h1, !.hist2 = h2,
                       !.a1 = fs[1], !.a2 = fs[2], !.b02 = fs[3], !.b1 = fs[4],
                       !.filter_coeff_incr_count = fs[5]] :
        idx \in {SampleStart, LoopEnd - 1},
        h1 \in {Zero, Tiny, Half, RInt(-3)}, h2 \in {Zero, One},
        fs \in FilterSettings, amp \in {One, Tiny}}

MixVoices ==
    {[BaseVoice EXCEPT !.phase = (LoopEnd - 1) * FractOne,
                       !.samplemode = FLUID_LOOP_UNTIL_RELEASE,
                       !.pan = ps[1], !.amp_left = ps[2], !.amp_right = ps[3],
                       !.amp_reverb = gr, !.amp_chorus = gc] :
        ps \in PanSettings, gr \in {Zero, RInt(3)}, gc \in {Zero, RInt(5)}}

Filled(n) == [i \in BufIdx |-> RInt(n)]

Init ==
    /\ scenario \in {"interp", "filter", "mix"}
    /\ WITH_FLOAT \in (IF scenario = "filter" THEN BOOLEAN ELSE {TRUE})
    /\ voice \in (CASE scenario = "interp" -> InterpVoices
                    [] scenario = "filter" -> FilterVoices
                    [] OTHER -> MixVoices)
    /\ voice0 = voice
    /\ pc = "start"
    /\ blocks = 0
    /\ blk = [dsp_start |-> 0, dsp_end |-> BufSize, phase_incr |-> FractOne,
              amp_incr |-> Zero, filter_flag |-> FALSE]
    /\ dsp_buf = Filled(-1)
    /\ dsp_left_buf = Filled(100)
    /\ dsp_right_buf = Filled(200)
    /\ dsp_reverb_buf \in (IF scenario = "mix" THEN {NULL, Filled(300)}
                           ELSE {NULL})
    /\ dsp_chorus_buf \in (IF scenario = "mix" THEN {NULL, Filled(400)}
                           ELSE {NULL})
    /\ old = Snapshot
    /\ reads = {}
    /\ lookups = <<>>
    /\ wrapped = -1
    /\ processed = 0
    /\ flushed = voice.hist1
    /\ SampleIdle
    /\ MixIdle
    /\ RaceIdle

\* the voice writer before a pass: wrap the phase of a looping voice, take
\* the next free range of the output buffer, cut where the sample or the
\* loop ends, and take the block's targets from the control layer
BlockStart ==
    /\ pc = "start"
    /\ blocks < MaxBlocks
    /\ \E phase_incr \in PhaseIncrs, amp_incr \in AmpIncrs,
          flag \in FilterFlags :
          LET p == IF is_looping(voice) THEN TrackerWrap(voice.phase)
                   ELSE voice.phase
              start == IF blk.dsp_end < BufSize THEN blk.dsp_end ELSE 0
              n == TrackerCount(p, phase_incr, 0, BufSize - start,
                                EndIndex(voice))
          IN  /\ voice' = [voice EXCEPT !.phase = p]
              /\ wrapped' = IF p # voice.phase THEN voice.phase ELSE -1
              /\ blk' = [dsp_start |-> start, dsp_end |-> start + n,
                         phase_incr |-> phase_incr, amp_incr |-> amp_incr,
                         filter_flag |-> flag]
    /\ blocks' = blocks + 1
    /\ old' = Snapshot
    /\ UNCHANGED aux_vars
    /\ pc' = "interp"
    /\ UNCHANGED <<scenario, WITH_FLOAT, dsp_buf, dsp_left_buf,
                   dsp_right_buf, dsp_reverb_buf, dsp_chorus_buf, voice0,
                   reads, lookups, processed, flushed>>

\* the DSP core at rest, while another part of the program is observed
CoreIdle(name) ==
    /\ scenario = name
    /\ WITH_FLOAT = TRUE
    /\ voice = BaseVoice
    /\ voice0 = voice
    /\ pc = "idle"
    /\ blocks = 0
    /\ blk = [dsp_start |-> 0, dsp_end |-> BufSize, phase_incr |-> FractOne,
              amp_incr |-> Zero, filter_flag |-> FALSE]
    /\ dsp_buf = Filled(-1)
    /\ reads = {}
    /\ lookups = <<>>
    /\ wrapped = -1
    /\ processed = 0
    /\ flushed = voice.hist1

\* destination buffers nobody mixes into
DestIdle ==
    /\ dsp_left_buf = Filled(100)
    /\ dsp_right_buf = Filled(200)
    /\ dsp_reverb_buf = NULL
    /\ dsp_chorus_buf = NULL
    /\ old = Snapshot

Next ==
    \/ BlockStart
    \/ Interpolate
    \/ Filter
    \/ Pan
    \/ ReverbSend
    \/ ChorusSend

Spec == Init /\ [][Next]_vars

\* fluid_rvoice_get_sample called on sample memories of all kinds
SampleInit ==
    /\ CoreIdle("sample")
    /\ DestIdle
    /\ MixIdle
    /\ RaceIdle
    /\ dsp_msb \in [SampleIdxs -> Shorts]
    /\ dsp_lsb \in {NULL} \cup [SampleIdxs -> Chars]
    /\ sample_idx = 0
    /\ got_sample = <<>>

SampleNext == GetSample

\* rendered voices waiting for their mixdown: <<pan, amp_left, amp_right,
\* amp_reverb, amp_chorus>> and the scratch buffer
RenderedVoices ==
    {[pan |-> RInt(-1), amp_left |-> One, amp_right |-> RInt(2),
      amp_reverb |-> RInt(3), amp_chorus |-> Zero,
      buf |-> [i \in BufIdx |-> RInt(40 + i)]],
     [pan |-> Norm(1, -2), amp_left |-> One, amp_right |-> One,
      amp_reverb |-> RInt(3), amp_chorus |-> RInt(5),
      buf |-> [i \in BufIdx |-> RInt(-(40 + i))]],
     [pan |-> One, amp_left |-> One, amp_right |-> Half,
      amp_reverb |-> One, amp_chorus |-> One,
      buf |-> [i \in BufIdx |-> Tiny]],
     [pan |-> Zero, amp_left |-> One, amp_right |-> Zero,
      amp_reverb |-> Zero, amp_chorus |-> Half,
      buf |-> [i \in BufIdx |-> RInt(8)]]}

\* a block's voices rendered, the destinations cleared or holding the sum
\* of earlier voices
MixInit ==
    /\ CoreIdle("mixdown")
    /\ SampleIdle
    /\ RaceIdle
    /\ dsp_left_buf \in {Filled(0), Filled(100)}
    /\ dsp_right_buf = Filled(200)
    /\ dsp_reverb_buf \in {NULL, Filled(0)}
    /\ dsp_chorus_buf \in {NULL, Filled(400)}
    /\ old = Snapshot
    /\ mix_voices \in [VoiceIds -> RenderedVoices]
    /\ mix_done = <<>>
    /\ mix_prior = Dests

MixNext == \E id \in VoiceIds : MixVoice(id)

MixSpec == MixInit /\ [][MixNext]_vars

\* rendered voices with and without a reverb send
SendingVoices ==
    {v \in RenderedVoices : v.amp_reverb \in {Zero, RInt(3)} /\ v.pan # One
                               /\ v.pan # Norm(1, -2)}

\* rendered voices, each mixed down by its own worker thread, with and
\* without serialization of the accumulation
RaceInit ==
    /\ CoreIdle("parallel")
    /\ SampleIdle
    /\ dsp_left_buf = Filled(100)
    /\ dsp_right_buf = Filled(200)
    /\ dsp_reverb_buf \in {NULL, Filled(300)}
    /\ dsp_chorus_buf = NULL
    /\ old = Snapshot
    /\ mix_voices \in [ThreadIds -> SendingVoices]
    /\ mix_done = <<>>
    /\ mix_prior = Dests
    /\ race_serialized \in BOOLEAN
    /\ threads = [t \in ThreadIds |->
                     [pc |-> "begin", i |-> 0, loaded |-> Zero]]
    /\ lock = 0

RaceNext ==
    \E t \in ThreadIds :
        \/ ThreadBegin(t)
        \/ ThreadLoad(t)
        \/ ThreadStore(t)
        \/ ThreadEnd(t)

RaceSpec == RaceInit /\ [][RaceNext]_vars

SampleSpec == SampleInit /\ [][SampleNext]_vars

---------------------------------------------------------------------------
(* Properties *)

InRange(i) == blk.dsp_start <= i /\ i < blk.dsp_end

BlockLen == blk.dsp_end - blk.dsp_start

\* the stage that has just run
InterpolateRan == pc = "filter"

FilterRan == pc = "pan"

PanRan == pc = "reverb"

ReverbRan == pc = "chorus"

ChorusRan == pc = "start" /\ blocks > 0

TrackerRan == pc = "interp"

\* the fast-path condition, on the phase the block started with
AtRootPitch ==
    /\ old.voice.phase % FractOne = 0
    /\ blk.phase_incr % FractOne = 0
    /\ blk.phase_incr \div FractOne = 1

\* a0 + k * incr
Ramp(a0, k, incr) == RAdd(a0, RMul(RInt(k), incr))

\* C1: under the fast-path condition every output position i of the block
\* holds (amp at sample i) * dsp_data[index0 + (i - dsp_start)], whatever
\* the interpolation method.
C1_FastPath ==
    (InterpolateRan /\ AtRootPitch) =>
        \A i \in BufIdx :
            InRange(i) =>
                dsp_buf[i] =
                    RMul(Ramp(old.voice.amp, i - blk.dsp_start, blk.amp_incr),
                         dsp_data((old.voice.phase \div FractOne)
                                  + (i - blk.dsp_start)))

C1_Witness ==
    /\ InterpolateRan
    /\ AtRootPitch
    /\ voice.interp_method = FLUID_INTERP_7THORDER
    /\ BlockLen >= 2
    /\ blk.amp_incr # Zero

LoopLen == LoopEnd - LoopStart

FilterState(v) ==
    <<v.hist1, v.hist2, v.a1, v.a2, v.b02, v.b1, v.filter_coeff_incr_count>>

\* C4: with a remaining count c > 0 at note start, after the filter stage
\* has processed n samples in total each stored coefficient is its start
\* value + min(n, c) * its increment: start + c * increment once c samples
\* are done, whatever the block boundaries, and unchanged from then on.
C4_CoeffTransition ==
    voice0.filter_coeff_incr_count > 0 =>
        LET n == IMin(processed, voice0.filter_coeff_incr_count)
        IN  /\ voice.a1 = Ramp(voice0.a1, n, voice0.a1_incr)
            /\ voice.a2 = Ramp(voice0.a2, n, voice0.a2_incr)
            /\ voice.b02 = Ramp(voice0.b02, n, voice0.b02_incr)
            /\ voice.b1 = Ramp(voice0.b1, n, voice0.b1_incr)

C4_Witness ==
    /\ FilterRan
    /\ blocks = 2
    /\ voice0.filter_coeff_incr_count = 4
    /\ old.voice.filter_coeff_incr_count \in 1 .. 3
    /\ processed > 4
    /\ voice.a1 # voice0.a1

RAbs(x) == <<IAbs(x[1]), x[2]>>

\* the threshold of the build: a float exponent field below 16 means a
\* magnitude below 2^(16 - 127); the double build compares with 1e-20
ZapThreshold == IF WITH_FLOAT THEN Norm(1, -111) ELSE ZapThresholdDouble

\* C5: the flush at the start of the filter stage turns a hist1 below the
\* threshold into exactly 0 and leaves a hist1 at or above it unchanged.
C5_DenormalFlush ==
    (FilterRan /\ blk.filter_flag) =>
        flushed = IF RLt(RAbs(old.voice.hist1), ZapThreshold)
                  THEN Zero
                  ELSE old.voice.hist1

StaticMode(v) == v.filter_coeff_incr_count <= 0

IdentityCoeffs(v) == v.a1 = Zero /\ v.a2 = Zero /\ v.b1 = Zero

\* C6 as stated: in static mode with a1 = a2 = b1 = 0 and b02 set for unity
\* gain (1/2 for the sum of the taps, 1 for the tap of the current sample)
\* every sample of the block leaves the filter stage as it entered.
C6_Original ==
    (FilterRan /\ blk.filter_flag /\ StaticMode(old.voice)
        /\ IdentityCoeffs(old.voice) /\ old.voice.b02 \in {Half, One}) =>
        \A i \in BufIdx : InRange(i) => dsp_buf[i] = old.dsp_buf[i]

\* the input two samples before position i: a history register for the
\* first two positions of the block
TwoBack(i) ==
    IF i = blk.dsp_start THEN old.voice.hist2
    ELSE IF i = blk.dsp_start + 1 THEN flushed
    ELSE old.dsp_buf[i - 2]

\* C6 (amended): in static mode with a1 = a2 = b1 = 0 the filter stage
\* turns sample i into b02 * (input i + input i - 2), the inputs before the
\* block being hist2 and the flushed hist1; positions outside the block
\* are left alone.
C6_FilterIdentity ==
    (FilterRan /\ blk.filter_flag /\ StaticMode(old.voice)
        /\ IdentityCoeffs(old.voice)) =>
        \A i \in BufIdx :
            dsp_buf[i] = IF InRange(i)
                         THEN RMul(old.voice.b02,
                                   RAdd(old.dsp_buf[i], TwoBack(i)))
                         ELSE old.dsp_buf[i]

C6_Witness ==
    /\ FilterRan
    /\ blk.filter_flag
    /\ StaticMode(old.voice)
    /\ IdentityCoeffs(old.voice)
    /\ old.voice.b02 = Half
    /\ old.voice.hist2 # Zero
    /\ BlockLen >= 3

\* C7: when the filter flag is not set the filter stage leaves the scratch
\* buffer, hist1, hist2, a1, a2, b02, b1 and the remaining count as they
\* were.
C7_FilterDisabled ==
    (FilterRan /\ ~blk.filter_flag) =>
        /\ dsp_buf = old.dsp_buf
        /\ FilterState(voice) = FilterState(old.voice)

C7_Witness ==
    /\ FilterRan
    /\ ~blk.filter_flag
    /\ BlockLen >= 2
    /\ voice.hist1 = Tiny
    /\ voice.filter_coeff_incr_count > 0

InDeadZone(pan) == RLt(pan, Half) /\ RLt(RNeg(Half), pan)

\* dest is olddest with gain * dsp_buf[i] added at every i of the block
Grown(dest, olddest, gain) ==
    \A i \in BufIdx :
        dest[i] = IF InRange(i)
                  THEN RAdd(olddest[i], RMul(gain, dsp_buf[i]))
                  ELSE olddest[i]

\* C8: with the pan in the dead zone and amp_left = amp_right = g, a
\* scratch buffer of constant value V adds g * V to every sample of the
\* block in both the left and the right buffer.
C8_CenteredPan ==
    (PanRan /\ InDeadZone(voice.pan) /\ voice.amp_left = voice.amp_right) =>
        \A V \in {dsp_buf[j] : j \in BufIdx} :
            (\A j \in BufIdx : InRange(j) => dsp_buf[j] = V) =>
                \A i \in BufIdx :
                    InRange(i) =>
                        /\ dsp_left_buf[i]
                              = RAdd(old.left[i], RMul(voice.amp_left, V))
                        /\ dsp_right_buf[i]
                              = RAdd(old.right[i], RMul(voice.amp_left, V))

C8_Witness ==
    /\ PanRan
    /\ blocks = 2
    /\ InDeadZone(voice.pan)
    /\ voice.amp_left = Half
    /\ voice.amp_right = Half
    /\ BlockLen >= 2
    /\ \A j \in BufIdx : InRange(j) => dsp_buf[j] = dsp_buf[blk.dsp_start]

\* C9: for every pan and every (amp_left, amp_right) the pan stage adds
\* amp_left * buf[i] to the left and amp_right * buf[i] to the right
\* buffer at every i of the block.
C9_PanEquivalence ==
    PanRan =>
        /\ Grown(dsp_left_buf, old.left, voice.amp_left)
        /\ Grown(dsp_right_buf, old.right, voice.amp_right)

\* C10: a send whose buffer is non-null and whose gain is non-zero adds
\* gain * buf[i] to its buffer at every i of the block; otherwise its
\* buffer stays as it was (a null buffer stays null); neither send touches
\* the other send's buffer, the left and right buffers or the scratch
\* buffer.
C10_AuxSends ==
    /\ ReverbRan =>
          /\ IF old.reverb # NULL /\ voice.amp_reverb # Zero
             THEN Grown(dsp_reverb_buf, old.reverb, voice.amp_reverb)
             ELSE dsp_reverb_buf = old.reverb
          /\ dsp_chorus_buf = old.chorus
          /\ dsp_left_buf = old.left /\ dsp_right_buf = old.right
          /\ dsp_buf = old.dsp_buf
    /\ ChorusRan =>
          /\ IF old.chorus # NULL /\ voice.amp_chorus # Zero
             THEN Grown(dsp_chorus_buf, old.chorus, voice.amp_chorus)
             ELSE dsp_chorus_buf = old.chorus
          /\ dsp_reverb_buf = old.reverb
          /\ dsp_left_buf = old.left /\ dsp_right_buf = old.right
          /\ dsp_buf = old.dsp_buf

C10_Witness ==
    /\ ChorusRan
    /\ BlockLen >= 2
    /\ old.chorus # NULL /\ voice.amp_chorus # Zero
    /\ dsp_reverb_buf # NULL /\ voice.amp_reverb # Zero
    /\ dsp_chorus_buf # old.chorus

\* C11: fluid_rvoice_get_sample returns m * 256 + l for the short m at
\* dsp_msb[idx] and the byte at dsp_lsb[idx] read as unsigned l in 0..255,
\* m * 256 when dsp_lsb is NULL; the result lies in [-2^23, 2^23 - 1] and
\* is negative for negative m.
C11_GetSample ==
    got_sample # <<>> =>
        LET m == dsp_msb[sample_idx]
            l == IF dsp_lsb = NULL THEN 0
                 ELSE IF dsp_lsb[sample_idx] < 0
                      THEN dsp_lsb[sample_idx] + 256
                      ELSE dsp_lsb[sample_idx]
        IN  /\ got_sample[1] = m * 256 + l
            /\ -8388608 <= got_sample[1] /\ got_sample[1] <= 8388607
            /\ m < 0 => got_sample[1] < 0

C11_Witness ==
    /\ got_sample = <<-1>>
    /\ dsp_msb[sample_idx] = -1
    /\ dsp_lsb # NULL
    /\ dsp_lsb[sample_idx] = -1

\* the unscaled value of output sample dsp_start + k of the last block
Unscaled(k) ==
    IF AtRootPitch
    THEN dsp_data((old.voice.phase \div FractOne) + k)
    ELSE InterpSum(old.voice.interp_method,
                   old.voice.phase + k * blk.phase_incr)

\* C12: in every interpolation path output sample dsp_start + k is scaled
\* by amp0 + k * amp_incr, the amplitude after a block of N samples is
\* amp0 + N * amp_incr, and no later stage nor the start of the next block
\* changes the amplitude the block left.
C12_AmplitudeRamp ==
    /\ InterpolateRan =>
          /\ \A i \in BufIdx :
                InRange(i) =>
                    dsp_buf[i] =
                        RMul(Ramp(old.voice.amp, i - blk.dsp_start,
                                  blk.amp_incr),
                             Unscaled(i - blk.dsp_start))
          /\ voice.amp = Ramp(old.voice.amp, BlockLen, blk.amp_incr)
    /\ ~InterpolateRan => voice.amp = old.voice.amp

C12_Witness ==
    /\ InterpolateRan
    /\ blocks = 2
    /\ ~AtRootPitch
    /\ voice.interp_method = FLUID_INTERP_LINEAR
    /\ blk.amp_incr = Half
    /\ BlockLen >= 2
    /\ old.voice.amp # voice0.amp
    /\ voice.amp # old.voice.amp

\* the fractional steps accumulated after k increments from the start of
\* the last block
FractSum(k) ==
    (old.voice.phase % FractOne) + k * (blk.phase_incr % FractOne)

\* C13: after N samples by any path the phase is the start phase + N *
\* phase increment in fixed point: the fractional part is the sum of the
\* fractional steps modulo 1 and lies in [0, 1), the index has grown by N *
\* the integer step plus one for each overflow of the fractional part;
\* this holds after every single increment (the index looked up for sample
\* k is the one k increments give), on the fast path too.
C13_PhaseAdvance ==
    InterpolateRan =>
        /\ voice.phase % FractOne = FractSum(BlockLen) % FractOne
        /\ voice.phase % FractOne \in 0 .. (FractOne - 1)
        /\ voice.phase \div FractOne
              = (old.voice.phase \div FractOne)
                + BlockLen * (blk.phase_incr \div FractOne)
                + (FractSum(BlockLen) \div FractOne)
        /\ Len(lookups) = BlockLen
        /\ \A k \in 0 .. (BlockLen - 1) :
              lookups[k + 1]
                  = (old.voice.phase \div FractOne)
                    + k * (blk.phase_incr \div FractOne)
                    + (FractSum(k) \div FractOne)

C13_Witness ==
    /\ InterpolateRan
    /\ BlockLen >= 2
    /\ old.voice.phase % FractOne # 0
    /\ blk.phase_incr % FractOne # 0
    /\ blk.phase_incr \div FractOne >= 2
    /\ FractSum(1) \div FractOne = 1
    /\ FractSum(BlockLen) % FractOne # 0

Buses == {"left", "right", "reverb", "chorus"}

AllMixed == Len(mix_done) = NumVoices

\* the gain of a voice for a bus
BusGain(v, bus) ==
    CASE bus = "left" -> v.amp_left
      [] bus = "right" -> v.amp_right
      [] bus = "reverb" -> v.amp_reverb
      [] OTHER -> v.amp_chorus

\* the gain the mixdown of a voice applies for a bus: amp_left for both
\* channels of a voice whose pan is inside the dead zone
AppliedGain(v, bus) ==
    IF bus = "right" /\ InDeadZone(v.pan) THEN v.amp_left
    ELSE BusGain(v, bus)

\* prior content of sample i of a bus with the first k voices of the
\* sequence order added one after another
RECURSIVE SumInOrder(_, _, _, _)
SumInOrder(order, bus, i, k) ==
    IF k = 0 THEN mix_prior[bus][i]
    ELSE RAdd(SumInOrder(order, bus, i, k - 1),
              RMul(AppliedGain(mix_voices[order[k]], bus),
                   mix_voices[order[k]].buf[i]))

\* the same with each voice's own gain for the bus
RECURSIVE ClaimedSum(_, _, _, _)
ClaimedSum(order, bus, i, k) ==
    IF k = 0 THEN mix_prior[bus][i]
    ELSE RAdd(ClaimedSum(order, bus, i, k - 1),
              RMul(BusGain(mix_voices[order[k]], bus),
                   mix_voices[order[k]].buf[i]))

\* the voices in the order of their ids
IdOrder == [k \in VoiceIds |-> k]

\* no buffer sample is so small that adding it to the others rounds
NoRounding ==
    \A id \in VoiceIds :
        \A i \in BufIdx :
            mix_voices[id].buf[i] = Zero \/ LeadExp(mix_voices[id].buf[i]) >= -8

RaceDone == \A t \in ThreadIds : threads[t].pc = "done"

\* what thread t adds to sample i of the reverb buffer
SendOf(t, i) == RMul(mix_voices[t].amp_reverb, mix_voices[t].buf[i])

\* C15: with the accumulation serialized per destination, when all threads
\* have finished every sample of the shared destination holds its prior
\* content plus every thread's contribution (added in the order of the
\* turns), and at no time do two threads work on the destination at once;
\* without serialization a state with a contribution missing is reachable
\* (C15_Witness).
C15_ParallelMix ==
    race_serialized =>
        /\ \A t, u \in ThreadIds :
              (threads[t].pc \in {"load", "store"}
                  /\ threads[u].pc \in {"load", "store"}) => t = u
        /\ (RaceDone /\ dsp_reverb_buf # NULL) =>
              \A i \in BufIdx :
                  dsp_reverb_buf[i]
                      = SumInOrder(mix_done, "reverb", i, NumThreads)

\* unsynchronized threads have finished and a destination sample lacks the
\* contribution of thread t: it holds the prior content plus thread u's
\* contribution only
C15_Witness ==
    /\ ~race_serialized
    /\ RaceDone
    /\ dsp_reverb_buf # NULL
    /\ \E i \in BufIdx :
          \E t, u \in ThreadIds :
              /\ t # u
              /\ SendOf(t, i) # Zero /\ LeadExp(SendOf(t, i)) >= 0
              /\ SendOf(u, i) # Zero /\ LeadExp(SendOf(u, i)) >= 0
              /\ dsp_reverb_buf[i] = RAdd(mix_prior.reverb[i], SendOf(u, i))
              /\ dsp_reverb_buf[i]
                    # RAdd(RAdd(mix_prior.reverb[i], SendOf(u, i)),
                           SendOf(t, i))

IMax(a, b) == IF a > b THEN a ELSE b

\* C16 as stated: the count persisted after a block of N samples is
\* max(c - N, 0) for a count c > 0 before it, and the count is never
\* negative.
C16_Original ==
    /\ voice.filter_coeff_incr_count >= 0
    /\ (FilterRan /\ blk.filter_flag
           /\ old.voice.filter_coeff_incr_count > 0) =>
          voice.filter_coeff_incr_count
              = IMax(old.voice.filter_coeff_incr_count - BlockLen, 0)

\* C16 (amended): a filtered block of N samples entered with a count c > 0
\* persists the count c - N, negative when N > c: the count is decremented
\* once per sample of that block, also after it has passed zero. A block
\* entered with a count <= 0, or with the filter off, leaves the count as it
\* is, so the count never falls below 1 - (samples per buffer).
C16_CoeffCount ==
    /\ voice.filter_coeff_incr_count >= 1 - BufSize
    /\ FilterRan =>
          voice.filter_coeff_incr_count
              = IF blk.filter_flag /\ old.voice.filter_coeff_incr_count > 0
                THEN old.voice.filter_coeff_incr_count - BlockLen
                ELSE old.voice.filter_coeff_incr_count

C16_Witness ==
    /\ FilterRan
    /\ blk.filter_flag
    /\ old.voice.filter_coeff_incr_count = 2
    /\ BlockLen = 3
    /\ voice.filter_coeff_incr_count = -1
    /\ voice.a1 = Ramp(old.voice.a1, 2, voice.a1_incr)

\* a non-zero value below the denormal threshold of the build
SubThreshold(x) == x # Zero /\ RLt(RAbs(x), ZapThreshold)

\* C17 as stated: a note that starts with no such value in hist1 and hist2
\* has none in them at any block boundary.
C17_Original ==
    (ChorusRan /\ ~SubThreshold(voice0.hist1) /\ ~SubThreshold(voice0.hist2))
        => (~SubThreshold(voice.hist1) /\ ~SubThreshold(voice.hist2))

\* C17 (amended): in every block whose filter runs, the hist1 the first
\* sample of the block sees is zero or not below the threshold; nothing
\* else is flushed (a block whose filter is off leaves both registers as
\* they are).
C17_DenormalFlush ==
    FilterRan =>
        IF blk.filter_flag
        THEN ~SubThreshold(flushed)
        ELSE voice.hist1 = old.voice.hist1 /\ voice.hist2 = old.voice.hist2

C17_Witness ==
    /\ FilterRan
    /\ blk.filter_flag
    /\ blocks = 2
    /\ voice0.hist1 = Zero /\ voice0.hist2 = Zero
    /\ SubThreshold(old.voice.hist1)
    /\ flushed = Zero
    /\ SubThreshold(voice.hist1)
    /\ SubThreshold(voice.hist2)

============================================================================
